---- MODULE Spec2Model ----
(* Ant Colony Optimization path search: main.py drives one run of           *)
(* AntColonyOptimization (aco.py) over a graph built by graph_parser.py.    *)
(* Node identifiers are integers.  Real numbers (pheromone intensities,     *)
(* rates, heuristics) are exact rationals <<numerator, denominator>> with   *)
(* a positive denominator, kept in lowest terms; edge weights are positive  *)
(* integers.                                                                *)
EXTENDS Integers, Sequences, FiniteSets, TLC

VARIABLES
    graph, distances, start, end, evaporation_rate, pheromone_deposit,
    pheromones, best_path, best_cost, iteration, ant_id,
    path, visited, total_cost, recent_nodes, current,
    steps_without_progress, last_visited_count, escape_mode, escape_steps, step,
    pc, result,
    ants_constructed, deposit_count, evaporate_count, successes, calls,
    escape_run

colony_vars == <<pheromones, best_path, best_cost, iteration, ant_id>>
ant_vars == <<path, visited, total_cost, recent_nodes, current,
              steps_without_progress, last_visited_count, escape_mode,
              escape_steps, step, escape_run>>
config_vars == <<graph, distances, start, end, evaporation_rate, pheromone_deposit>>
\* what has happened so far: ants built, deposits and evaporations made, the
\* counted ants of this call of run with their costs, the calls of run begun
history_vars == <<ants_constructed, deposit_count, evaporate_count, successes,
                  calls>>
vars == <<config_vars, colony_vars, ant_vars, pc, result, history_vars>>

-----------------------------------------------------------------------------
(* Bounds of the model.                                                     *)

\* ants per iteration (AntColonyOptimization(num_ants=...))
num_ants == 2
\* iteration budget (AntColonyOptimization(num_iterations=...))
num_iterations == 2
\* step ceiling of find_path (its max_steps parameter)
max_steps == 310
\* number of nodes of the chain graph
LineLength == 200
\* passes of the while loop of is_reachable that are followed
BfsPasses == 1024
\* path lengths tried around the long-path threshold of _deposit_pheromones
LongPathMargin == 3
\* calls of run made on one colony object
MaxCalls == 2

(* Program constants.                                                       *)
Inf == -1
NoneWeight == 0
max_recent == 5
StagnationThreshold == 100
EscapeBudget == 200
TopK == 3
PathSanityCeiling == 10000
LongPathThreshold == 1000
EarlyExitLength == 200

None == <<>>

-----------------------------------------------------------------------------
(* Exact rational arithmetic standing for Python's floats.                  *)

RECURSIVE GCD(_, _)
GCD(a, b) == IF b = 0 THEN a ELSE GCD(b, a % b)

Abs(x) == IF x < 0 THEN -x ELSE x

Norm(r) ==
    LET g == GCD(Abs(r[1]), r[2])
    IN  IF r[1] = 0 THEN <<0, 1>> ELSE <<r[1] \div g, r[2] \div g>>

Rat(n) == <<n, 1>>
RAdd(a, b) == Norm(<<a[1] * b[2] + b[1] * a[2], a[2] * b[2]>>)
RSub(a, b) == Norm(<<a[1] * b[2] - b[1] * a[2], a[2] * b[2]>>)
RMul(a, b) == Norm(<<a[1] * b[1], a[2] * b[2]>>)
RLess(a, b) == a[1] * b[2] < b[1] * a[2]
RAbs(a) == <<Abs(a[1]), a[2]>>

\* the literal 0.01 of _evaporate_pheromones
Floor == <<1, 100>>
\* the literal 1e-6 of _greedy_selection
TieEpsilon == <<1, 1000000>>
\* the literal 0.1 of _deposit_pheromones
ShrinkFactor == <<1, 10>>

\* cost < other, where either may be float('inf')
CostLess(a, b) == IF a = Inf THEN FALSE ELSE IF b = Inf THEN TRUE ELSE a < b

-----------------------------------------------------------------------------
(* Graphs: node |-> its 'neighbours' dict, in insertion order, as a         *)
(* sequence of <<neighbour, weight>>.  A neighbour that is no node of the   *)
(* graph keeps the weight None that parse_graph gave it.                    *)

Cycle4 == (1 :> <<<<2, 1>>, <<4, 1>>>>) @@ (2 :> <<<<1, 1>>, <<3, 1>>>>) @@
          (3 :> <<<<2, 1>>, <<4, 1>>>>) @@ (4 :> <<<<3, 1>>, <<1, 1>>>>)

Diamond == (1 :> <<<<2, 1>>, <<4, 1>>, <<5, 1>>>>) @@ (2 :> <<<<3, 1>>>>) @@
           (3 :> <<>>) @@ (4 :> <<<<3, 1>>>>) @@ (5 :> <<<<3, 2>>>>)

Dangling == (1 :> <<<<2, 3>>, <<9, NoneWeight>>>>) @@ (2 :> <<<<1, 3>>>>) @@
            (3 :> <<<<9, NoneWeight>>>>)

Heavy == (1 :> <<<<2, 150>>>>) @@ (2 :> <<<<3, 150>>, <<1, 150>>>>) @@
         (3 :> <<>>)

Star == (1 :> <<<<2, 1>>>>) @@ (2 :> <<<<3, 1>>, <<5, 2>>>>) @@
        (3 :> <<<<1, 1>>>>) @@ (5 :> <<>>)

\* a chain 1 -> 2 -> ... -> LineLength of unit edges
Line == [n \in 1..LineLength |-> IF n < LineLength THEN <<<<n + 1, 1>>>> ELSE <<>>]

\* a ring 2 -> 3 -> ... -> 8 -> 2 entered from 1, with a way back 4 -> 3, a way
\* out 5 -> 1, and the target 10 behind 9, the other neighbour of 1
Lasso == (1 :> <<<<2, 1>>, <<9, 1>>>>) @@ (2 :> <<<<3, 1>>>>) @@
         (3 :> <<<<4, 1>>>>) @@ (4 :> <<<<3, 1>>, <<5, 1>>>>) @@
         (5 :> <<<<6, 1>>, <<1, 2>>>>) @@ (6 :> <<<<7, 1>>>>) @@
         (7 :> <<<<8, 1>>>>) @@ (8 :> <<<<2, 1>>>>) @@ (9 :> <<<<10, 1>>>>) @@
         (10 :> <<>>)

\* a chain of unit edges whose last node is max_steps moves away from its first
LongLine == [n \in 1..(max_steps + 1) |->
                IF n < max_steps + 1 THEN <<<<n + 1, 1>>>> ELSE <<>>]

Graphs == {Cycle4, Diamond, Dangling, Heavy, Star, Line}

Nodes(g) == DOMAIN g

\* the start and end nodes tried on a graph: every pair of nodes, and on the
\* chain its ends and the second node
StartEnds(g) ==
    IF g = Line THEN {<<1, LineLength>>, <<2, LineLength>>, <<LineLength, 1>>}
    ELSE IF g = LongLine THEN {<<1, max_steps + 1>>, <<2, max_steps + 1>>}
    ELSE IF g = Lasso THEN {<<1, 10>>}
    ELSE Nodes(g) \X Nodes(g)

\* mutant: the weight of the first entry, whatever the key
Weight_FirstEntry(nb, n) == nb[1][2]

\* neighbors[n] for a key n of the neighbours dict nb
Weight(nb, n) == LET i == CHOOSE i \in 1..Len(nb) : nb[i][1] = n IN nb[i][2]
Keys(nb) == {nb[i][1] : i \in 1..Len(nb)}
SeqToSet(s) == {s[i] : i \in 1..Len(s)}

-----------------------------------------------------------------------------
(* graph_parser.py and main.py: the data providers.                         *)
(* A dict key that is a node id n is the 1-tuple <<n>>; a key that is a     *)
(* pair of node ids is the 2-tuple <<a, b>>, so that a lookup of a node id  *)
(* in a table keyed by pairs finds nothing, as in Python.                   *)

NodeKey(n) == <<n>>

get_distance_dict(g) ==
    LET keys == UNION {{<<n, g[n][i][1]>> :
                           i \in {j \in 1..Len(g[n]) : g[n][j][2] # NoneWeight}} :
                       n \in Nodes(g)}
    IN  [k \in keys |-> Weight(g[k[1]], k[2])]

\* main.py lines 11-17: one pass of the while loop; found is the return True
bfs_pass(g, st, target) ==
    LET node == Head(st.queue)
        seen2 == st.seen \cup {node}
        more == SelectSeq(g[node], LAMBDA e : e[1] \notin seen2 /\ e[1] \in Nodes(g))
    IN  IF node = target
        THEN [st EXCEPT !.found = TRUE]
        ELSE [queue |-> Tail(st.queue) \o [i \in 1..Len(more) |-> more[i][1]],
              seen |-> seen2,
              found |-> FALSE]

\* main.py lines 10, 13 and 18: the loop has ended
bfs_done(st) == st.found \/ st.queue = <<>>

\* at most n passes of the while loop, made in order; the passes are split in
\* halves to keep the evaluation shallow
RECURSIVE bfs(_, _, _, _)
bfs(g, st, target, n) ==
    IF bfs_done(st) \/ n = 0 THEN st
    ELSE IF n = 1 THEN bfs_pass(g, st, target)
    ELSE bfs(g, bfs(g, st, target, n \div 2), target, n - (n \div 2))

\* the loop ends within BfsPasses passes on every graph of the model; the
\* result is left undefined if it did not
is_reachable(g, s, e) ==
    LET st == bfs(g, [queue |-> <<s>>, seen |-> {}, found |-> FALSE], e, BfsPasses)
    IN  IF bfs_done(st) THEN st.found ELSE CHOOSE b \in {} : TRUE

-----------------------------------------------------------------------------
(* Ant: the selection policies.  A policy yields the set of nodes that      *)
(* random.choice may return; the empty set stands for None.                 *)

\* lines 61-62
Available(g, c) == SelectSeq(g[c], LAMBDA e : e[1] \in Nodes(g))

\* lines 138-141
goal_distance(dist, e, neighbor) ==
    IF NodeKey(e) \in DOMAIN dist /\ NodeKey(neighbor) \in DOMAIN dist[NodeKey(e)]
    THEN dist[NodeKey(e)][NodeKey(neighbor)]
    ELSE Inf

\* line 143: 1.0 / (goal_distance + edge_cost + 1.0); 1.0 / inf is 0.0
Heuristic(goal, edge_cost) ==
    IF goal = Inf THEN <<0, 1>> ELSE <<1, goal + edge_cost + 1>>

\* lines 134-149: the scan that keeps the best heuristic and its ties
RECURSIVE GreedyScan(_, _, _, _, _, _)
GreedyScan(candidates, i, best_heuristic, best_candidates, dist, e) ==
    IF i > Len(candidates) THEN best_candidates
    ELSE LET neighbor == candidates[i][1]
             h == Heuristic(goal_distance(dist, e, neighbor), candidates[i][2])
         IN  IF RLess(best_heuristic, h)
             THEN GreedyScan(candidates, i + 1, h, <<neighbor>>, dist, e)
             ELSE IF RLess(RAbs(RSub(h, best_heuristic)), TieEpsilon)
             THEN GreedyScan(candidates, i + 1, best_heuristic,
                             Append(best_candidates, neighbor), dist, e)
             ELSE GreedyScan(candidates, i + 1, best_heuristic, best_candidates,
                             dist, e)

\* lines 121-132: the tier the candidates are taken from
Tier(available, vis, recent) ==
    LET unvisited == SelectSeq(available, LAMBDA e : e[1] \notin vis)
        visited_non_recent ==
            SelectSeq(available, LAMBDA e : e[1] \in vis /\ e[1] \notin SeqToSet(recent))
        visited_recent ==
            SelectSeq(available, LAMBDA e : e[1] \in vis /\ e[1] \in SeqToSet(recent))
    IN  IF unvisited # <<>> THEN unvisited
        ELSE IF visited_non_recent # <<>> THEN visited_non_recent
        ELSE visited_recent

greedy_selection(available, vis, recent, dist, e) ==
    SeqToSet(GreedyScan(Tier(available, vis, recent), 1, <<-1, 1>>, <<>>, dist, e))

\* line 170: self.distances[end].get(node, float('inf'))
escape_goal_distance(dist, e, node) ==
    IF NodeKey(node) \in DOMAIN dist[NodeKey(e)]
    THEN dist[NodeKey(e)][NodeKey(node)] ELSE Inf

\* a stable insertion of x into a sequence sorted by ascending key
RECURSIVE InsertByKey(_, _, _, _)
InsertByKey(sorted, x, dist, e) ==
    IF sorted = <<>> THEN <<x>>
    ELSE LET kx == escape_goal_distance(dist, e, x)
             kl == escape_goal_distance(dist, e, sorted[Len(sorted)])
         IN  IF CostLess(kx, kl)
             THEN Append(InsertByKey(SubSeq(sorted, 1, Len(sorted) - 1), x, dist, e),
                         sorted[Len(sorted)])
             ELSE Append(sorted, x)

\* line 172: unvisited.sort(key=goal_distance)
RECURSIVE SortByGoal(_, _, _, _)
SortByGoal(s, n, dist, e) ==
    IF n = 0 THEN <<>>
    ELSE InsertByKey(SortByGoal(s, n - 1, dist, e), s[n], dist, e)

\* mutant: path.index(neighbor), the first occurrence, where the code takes the
\* last
distance_from_last_visit_FromFirst(p, neighbor) ==
    LET first == CHOOSE i \in 1..Len(p) :
                     p[i] = neighbor /\ \A j \in 1..(i - 1) : p[j] # neighbor
    IN  Len(p) - (first - 1)

\* lines 182-183: steps since the last occurrence of neighbor in the path
distance_from_last_visit(p, neighbor) ==
    LET last == CHOOSE i \in 1..Len(p) :
                    p[i] = neighbor /\ \A j \in (i + 1)..Len(p) : p[j] # neighbor
    IN  Len(p) - (last - 1)

aggressive_escape(available, vis, p, dist, e) ==
    LET unvisited == SelectSeq(available, LAMBDA a : a[1] \notin vis)
        unv == [i \in 1..Len(unvisited) |-> unvisited[i][1]]
        in_path == SelectSeq(available, LAMBDA a : a[1] \in SeqToSet(p))
        visited_with_distance ==
            [i \in 1..Len(in_path) |->
                <<in_path[i][1], distance_from_last_visit(p, in_path[i][1])>>]
        top == CHOOSE i \in 1..Len(visited_with_distance) :
                   /\ \A j \in 1..Len(visited_with_distance) :
                          visited_with_distance[j][2] <= visited_with_distance[i][2]
                   /\ \A j \in 1..(i - 1) :
                          visited_with_distance[j][2] < visited_with_distance[i][2]
    IN  IF unvisited # <<>>
        THEN IF NodeKey(e) \in DOMAIN dist
             THEN LET sorted == SortByGoal(unv, Len(unv), dist, e)
                      k == IF TopK < Len(sorted) THEN TopK ELSE Len(sorted)
                  IN  SeqToSet(SubSeq(sorted, 1, k))
             ELSE SeqToSet(unv)
        ELSE IF visited_with_distance # <<>>
        THEN {visited_with_distance[top][1]}
        ELSE Keys(available)

-----------------------------------------------------------------------------
(* Ant.find_path: one pass of the loop body.                                *)

\* mutant: ">=" where line 77 has ">"
Tracking_StagnantAtThreshold(visited_count, swp, lvc, em, es) ==
    LET swp1 == IF visited_count = lvc THEN swp + 1 ELSE 0
        lvc1 == IF visited_count = lvc THEN lvc ELSE visited_count
        em1 == IF visited_count = lvc THEN em ELSE FALSE
        es1 == IF visited_count = lvc THEN es ELSE 0
        stagnant == swp1 >= StagnationThreshold
    IN  [steps_without_progress |-> swp1,
         last_visited_count |-> lvc1,
         escape_mode |-> IF stagnant THEN TRUE ELSE em1,
         escape_steps |-> IF stagnant
                          THEN (IF em1 THEN es1 ELSE 0) + 1
                          ELSE es1]

\* lines 68-81: progress tracking and mode selection
Tracking(visited_count, swp, lvc, em, es) ==
    LET swp1 == IF visited_count = lvc THEN swp + 1 ELSE 0
        lvc1 == IF visited_count = lvc THEN lvc ELSE visited_count
        em1 == IF visited_count = lvc THEN em ELSE FALSE
        es1 == IF visited_count = lvc THEN es ELSE 0
        stagnant == swp1 > StagnationThreshold
    IN  [steps_without_progress |-> swp1,
         last_visited_count |-> lvc1,
         escape_mode |-> IF stagnant THEN TRUE ELSE em1,
         escape_steps |-> IF stagnant
                          THEN (IF em1 THEN es1 ELSE 0) + 1
                          ELSE es1]

\* line 84: which policy selects
UsesEscape(t) == t.escape_mode /\ t.escape_steps < EscapeBudget

\* lines 84-90: the nodes the selection may return
Selection(t, available, vis, recent, p, dist, e) ==
    IF UsesEscape(t)
    THEN aggressive_escape(available, vis, p, dist, e)
    ELSE greedy_selection(available, vis, recent, dist, e)

\* lines 88-90: the escape budget is spent
BudgetSpent(t) == ~UsesEscape(t) /\ t.escape_mode /\ t.escape_steps >= EscapeBudget

\* mutant: pop() where line 103 has pop(0): the newest node is dropped
PushRecent_PopsNewest(recent, n) ==
    LET r == Append(recent, n)
    IN  IF Len(r) > max_recent THEN SubSeq(r, 1, Len(r) - 1) ELSE r

\* lines 101-103
PushRecent(recent, n) ==
    LET r == Append(recent, n)
    IN  IF Len(r) > max_recent THEN Tail(r) ELSE r

\* line 56: the loop still has a pass to make
InLoop(s) == s < max_steps

AntStep ==
    /\ pc = "find_path"
    /\ InLoop(step)
    /\ current # end
    /\ LET neighbors == graph[current]
           available == Available(graph, current)
           t == Tracking(Cardinality(visited), steps_without_progress,
                         last_visited_count, escape_mode, escape_steps)
       IN  /\ available # <<>>
           /\ \E next_node \in Selection(t, available, visited, recent_nodes,
                                         path, distances, end) :
                /\ total_cost' = total_cost + Weight(neighbors, next_node)
                /\ path' = Append(path, next_node)
                /\ visited' = visited \cup {next_node}
                /\ recent_nodes' = PushRecent(recent_nodes, next_node)
                /\ current' = next_node
           /\ steps_without_progress' = t.steps_without_progress
           /\ last_visited_count' = t.last_visited_count
           /\ escape_mode' = IF BudgetSpent(t) THEN FALSE ELSE t.escape_mode
           /\ escape_steps' = IF BudgetSpent(t) THEN 0 ELSE t.escape_steps
           /\ escape_run' = IF UsesEscape(t) THEN escape_run + 1 ELSE 0
    /\ step' = step + 1
    /\ UNCHANGED <<config_vars, colony_vars, pc, result, history_vars>>

\* mutant: the ant lays its own trail on the shared field as it returns
AntReturnPath_LaysTrail ==
    /\ pc = "find_path"
    /\ step < max_steps
    /\ current = end
    /\ result' = path
    /\ pc' = "ant_returned"
    /\ pheromones' = [edge \in DOMAIN pheromones \cup
                                {<<path[i], path[i + 1]>> : i \in 1..(Len(path) - 1)} |->
                         <<1, 1>>]
    /\ UNCHANGED <<config_vars, best_path, best_cost, iteration, ant_id, ant_vars,
                   history_vars>>

\* lines 57-58
AntReturnPath ==
    /\ pc = "find_path"
    /\ InLoop(step)
    /\ current = end
    /\ result' = path
    /\ pc' = "ant_returned"
    /\ UNCHANGED <<config_vars, colony_vars, ant_vars, history_vars>>

\* lines 64-65, 92-93 and 107: a break, or the loop ran out
AntFail ==
    /\ pc = "find_path"
    /\ \/ ~InLoop(step)
       \/ /\ current # end
          /\ LET available == Available(graph, current)
                 t == Tracking(Cardinality(visited), steps_without_progress,
                               last_visited_count, escape_mode, escape_steps)
             IN  \/ available = <<>>
                 \/ Selection(t, available, visited, recent_nodes,
                              path, distances, end) = {}
    /\ result' = None
    /\ pc' = "ant_returned"
    /\ UNCHANGED <<config_vars, colony_vars, ant_vars, history_vars>>

-----------------------------------------------------------------------------
(* AntColonyOptimization.                                                   *)

\* lines 280-283: the divisor of the deposit amount
Divisor(p, cost) ==
    IF Len(p) > LongPathThreshold THEN RMul(Rat(cost), ShrinkFactor) ELSE Rat(cost)

\* pheromone_deposit / divisor, for a divisor that is not zero
deposit_amount(p, cost, deposit) ==
    LET d == Divisor(p, cost) IN Norm(<<deposit * d[2], d[1]>>)

\* mutant: "=" where the code has "+="
DepositEdge_Overwrites(ph, edge, amount) ==
    LET ph0 == IF edge \in DOMAIN ph THEN ph ELSE ph @@ (edge :> <<0, 1>>)
    IN  [ph0 EXCEPT ![edge] = amount]

\* true of every value; asking it computes the value of v first
Computed(v) == v = v

\* lines 286-289: one edge of the path
DepositEdge(ph, edge, amount) ==
    LET ph0 == IF edge \in DOMAIN ph THEN ph ELSE ph @@ (edge :> <<0, 1>>)
    IN  [ph0 EXCEPT ![edge] = RAdd(ph0[edge], amount)]

\* lines 285-289 for the edges lo..hi of the path, in order; the range is split
\* in halves to keep the evaluation shallow
RECURSIVE deposit_edges(_, _, _, _, _)
deposit_edges(ph, p, lo, hi, amount) ==
    IF lo > hi \/ ~Computed(ph) THEN ph
    ELSE IF lo = hi THEN DepositEdge(ph, <<p[lo], p[lo + 1]>>, amount)
    ELSE deposit_edges(deposit_edges(ph, p, lo, (lo + hi) \div 2, amount),
                       p, ((lo + hi) \div 2) + 1, hi, amount)

\* lines 285-289
deposit_pheromones(ph, p, amount) == deposit_edges(ph, p, 1, Len(p) - 1, amount)

\* lines 296-298: one edge
Evaporated(v, rate) ==
    LET w == RMul(v, RSub(Rat(1), rate))
    IN  IF RLess(w, Floor) THEN Floor ELSE w

\* lines 295-298
evaporate_pheromones(ph, rate) == [edge \in DOMAIN ph |-> Evaporated(ph[edge], rate)]

\* line 252
Counts(p) == p # None /\ Len(p) < PathSanityCeiling

\* mutant: "<=" where the code has "<"
Improves_OrEqual(cost, best) == ~CostLess(best, cost)

\* line 259
Improves(cost, best) == CostLess(cost, best)

\* mutant: the break taken without a best path
EarlyExit_NoPathNeeded(bp) == Len(bp) < EarlyExitLength

\* line 267
EarlyExit(bp) == bp # None /\ Len(bp) < EarlyExitLength

Init ==
    /\ graph \in Graphs
    /\ \E se \in StartEnds(graph) : start = se[1] /\ end = se[2]
    /\ distances = get_distance_dict(graph)
    /\ evaporation_rate \in {<<0, 1>>, <<1, 2>>, <<1, 1>>}
    /\ pheromone_deposit \in {1, 100}
    /\ pheromones = <<>>
    /\ best_path = None
    /\ best_cost = Inf
    /\ iteration = 0
    /\ ant_id = 0
    /\ path = <<>>
    /\ visited = {}
    /\ total_cost = 0
    /\ recent_nodes = <<>>
    /\ current = start
    /\ steps_without_progress = 0
    /\ last_visited_count = 0
    /\ escape_mode = FALSE
    /\ escape_steps = 0
    /\ step = 0
    /\ pc = "ant_loop"
    /\ result = None
    /\ ants_constructed = 0
    /\ deposit_count = 0
    /\ evaporate_count = 0
    /\ successes = <<>>
    /\ calls = 1
    /\ escape_run = 0

\* lines 246-250 and 45-54: the next ant is built and starts find_path
SpawnAnt ==
    /\ pc = "ant_loop"
    /\ ant_id < num_ants
    /\ path' = <<start>>
    /\ visited' = {start}
    /\ total_cost' = 0
    /\ recent_nodes' = <<start>>
    /\ current' = start
    /\ steps_without_progress' = 0
    /\ last_visited_count' = 0
    /\ escape_mode' = FALSE
    /\ escape_steps' = 0
    /\ step' = 0
    /\ escape_run' = 0
    /\ pc' = "find_path"
    /\ ants_constructed' = ants_constructed + 1
    /\ UNCHANGED <<config_vars, colony_vars, result, deposit_count,
                   evaporate_count, successes, calls>>

\* line 252 is false: the ant failed or its path is too long
AntSkipped ==
    /\ pc = "ant_returned"
    /\ ~Counts(result)
    /\ ant_id' = ant_id + 1
    /\ pc' = "ant_loop"
    /\ UNCHANGED <<config_vars, pheromones, best_path, best_cost, iteration,
                   ant_vars, result, history_vars>>

\* mutant: the evaporation indented into the ant's block
AntCounted_EvaporatesInside ==
    /\ pc = "ant_returned"
    /\ result # None /\ Len(result) < PathSanityCeiling
    /\ total_cost # 0
    /\ best_cost' = IF CostLess(total_cost, best_cost) THEN total_cost ELSE best_cost
    /\ best_path' = IF CostLess(total_cost, best_cost) THEN result ELSE best_path
    /\ pheromones' = evaporate_pheromones(
                         deposit_pheromones(pheromones, result,
                             deposit_amount(result, total_cost, pheromone_deposit)),
                         evaporation_rate)
    /\ ant_id' = ant_id + 1
    /\ pc' = "ant_loop"
    /\ deposit_count' = deposit_count + 1
    /\ evaporate_count' = evaporate_count + 1
    /\ successes' = Append(successes, <<result, total_cost>>)
    /\ UNCHANGED <<config_vars, iteration, ant_vars, result, ants_constructed,
                   calls>>

\* lines 253-263 with a divisor that is not zero
AntCounted ==
    /\ pc = "ant_returned"
    /\ Counts(result)
    /\ Divisor(result, total_cost)[1] # 0
    /\ best_cost' = IF Improves(total_cost, best_cost) THEN total_cost ELSE best_cost
    /\ best_path' = IF Improves(total_cost, best_cost) THEN result ELSE best_path
    /\ pheromones' = deposit_pheromones(pheromones, result,
                         deposit_amount(result, total_cost, pheromone_deposit))
    /\ ant_id' = ant_id + 1
    /\ pc' = "ant_loop"
    /\ deposit_count' = deposit_count + 1
    /\ successes' = Append(successes, <<result, total_cost>>)
    /\ UNCHANGED <<config_vars, iteration, ant_vars, result, ants_constructed,
                   evaporate_count, calls>>

\* lines 253-261, then the division of line 281 or 283 raises ZeroDivisionError
AntCountedFault ==
    /\ pc = "ant_returned"
    /\ Counts(result)
    /\ Divisor(result, total_cost)[1] = 0
    /\ best_cost' = IF Improves(total_cost, best_cost) THEN total_cost ELSE best_cost
    /\ best_path' = IF Improves(total_cost, best_cost) THEN result ELSE best_path
    /\ pc' = "fault"
    /\ successes' = Append(successes, <<result, total_cost>>)
    /\ UNCHANGED <<config_vars, pheromones, iteration, ant_id, ant_vars, result,
                   ants_constructed, deposit_count, evaporate_count, calls>>

\* lines 265-270: the iteration ends; the run goes on, breaks or runs out
EndIteration ==
    /\ pc = "ant_loop"
    /\ ant_id = num_ants
    /\ pheromones' = evaporate_pheromones(pheromones, evaporation_rate)
    /\ evaporate_count' = evaporate_count + 1
    /\ IF EarlyExit(best_path) \/ iteration + 1 >= num_iterations
       THEN pc' = "run_returned" /\ UNCHANGED <<iteration, ant_id>>
       ELSE pc' = "ant_loop" /\ iteration' = iteration + 1 /\ ant_id' = 0
    /\ UNCHANGED <<config_vars, best_path, best_cost, ant_vars, result,
                   ants_constructed, deposit_count, successes, calls>>

\* main.py lines 45-47
MainAbort ==
    /\ pc = "run_returned"
    /\ ~is_reachable(graph, start, end)
    /\ pc' = "aborted"
    /\ UNCHANGED <<config_vars, colony_vars, ant_vars, result, history_vars>>

\* main.py lines 49-53
MainReport ==
    /\ pc = "run_returned"
    /\ is_reachable(graph, start, end)
    /\ pc' = "reported"
    /\ UNCHANGED <<config_vars, colony_vars, ant_vars, result, history_vars>>

Next ==
    \/ SpawnAnt
    \/ AntStep
    \/ AntReturnPath
    \/ AntFail
    \/ AntSkipped
    \/ AntCounted
    \/ AntCountedFault
    \/ EndIteration
    \/ MainAbort
    \/ MainReport

Spec == Init /\ [][Next]_vars

-----------------------------------------------------------------------------
(* One ant alone: Ant(graph, distances, pheromones, alpha, beta) built by   *)
(* a caller and find_path(start, end) called on it once.  The caller hands  *)
(* it either the flat table of get_distance_dict or a table of the shape    *)
(* the lookups of lines 138-139 and 168-170 read, distances[end][node], and *)
(* a pheromone field.                                                       *)

\* distances[end][node] for the nodes of known, from the node numbers taken as
\* positions on a line
NestedTable(g, e, known) ==
    NodeKey(e) :> [k \in {NodeKey(n) : n \in known} |-> Abs(k[1] - e)]

DistanceTables(g, e) ==
    {get_distance_dict(g),
     NestedTable(g, e, Nodes(g)),
     NestedTable(g, e, {n \in Nodes(g) : n % 2 = 0})}

\* the empty field, and a field with a trail on the first edge out of s
TrailFields(g, s) ==
    IF g[s] = <<>> THEN {<<>>} ELSE {<<>>, <<s, g[s][1][1]>> :> <<50, 1>>}

AntGraphs == {Cycle4, Diamond, Dangling, Star, Lasso, LongLine}

InitAnt ==
    /\ graph \in AntGraphs
    /\ \E se \in StartEnds(graph) : start = se[1] /\ end = se[2]
    /\ distances \in DistanceTables(graph, end)
    /\ evaporation_rate = <<1, 2>>
    /\ pheromone_deposit = 100
    /\ pheromones \in TrailFields(graph, start)
    /\ best_path = None
    /\ best_cost = Inf
    /\ iteration = 0
    /\ ant_id = 0
    /\ path = <<>>
    /\ visited = {}
    /\ total_cost = 0
    /\ recent_nodes = <<>>
    /\ current = start
    /\ steps_without_progress = 0
    /\ last_visited_count = 0
    /\ escape_mode = FALSE
    /\ escape_steps = 0
    /\ step = 0
    /\ pc = "ant_loop"
    /\ result = None
    /\ ants_constructed = 0
    /\ deposit_count = 0
    /\ evaporate_count = 0
    /\ successes = <<>>
    /\ calls = 0
    /\ escape_run = 0

NextAnt ==
    \/ SpawnAnt
    \/ AntStep
    \/ AntReturnPath
    \/ AntFail

SpecAnt == InitAnt /\ [][NextAnt]_vars

-----------------------------------------------------------------------------
(* The deposit for long paths: run at line 252, its first ant back from a   *)
(* find_path that walked a chain of n nodes from end to end (with the       *)
(* default step ceiling of 20000), for n around the threshold of line 280.  *)

\* a chain 1 -> 2 -> ... -> n of edges of weight w
Chain(n, w) == [m \in 1..n |-> IF m < n THEN <<<<m + 1, w>>>> ELSE <<>>]

LongPathLengths ==
    (LongPathThreshold + 1 - LongPathMargin)..(LongPathThreshold + LongPathMargin)

InitDeposit ==
    /\ \E n \in LongPathLengths, w \in {1, 2} :
          /\ graph = Chain(n, w)
          /\ start = 1
          /\ end = n
          /\ path = [i \in 1..n |-> i]
          /\ result = [i \in 1..n |-> i]
          /\ visited = 1..n
          /\ total_cost = w * (n - 1)
          /\ recent_nodes = [i \in 1..max_recent |-> n - max_recent + i]
          /\ current = n
          /\ step = n - 1
          /\ last_visited_count = n - 1
    /\ distances = get_distance_dict(graph)
    /\ evaporation_rate = <<1, 2>>
    /\ pheromone_deposit \in {1, 50, 100}
    /\ pheromones \in {<<>>, <<1, 2>> :> Floor}
    /\ best_path = None
    /\ best_cost = Inf
    /\ iteration = 0
    /\ ant_id = 0
    /\ steps_without_progress = 0
    /\ escape_mode = FALSE
    /\ escape_steps = 0
    /\ pc = "ant_returned"
    /\ ants_constructed = 1
    /\ deposit_count = 0
    /\ evaporate_count = 0
    /\ successes = <<>>
    /\ calls = 1
    /\ escape_run = 0

NextDeposit == AntCounted

SpecDeposit == InitDeposit /\ [][NextDeposit]_vars

-----------------------------------------------------------------------------
(* A caller that keeps the colony object and calls run on it again, with    *)
(* any start and end; only __init__ (lines 226-228) sets pheromones,        *)
(* best_path and best_cost, run does not.                                   *)

RerunGraphs == {Diamond, Star, Heavy}

InitRerun ==
    /\ Init
    /\ graph \in RerunGraphs
    /\ evaporation_rate = <<1, 2>>
    /\ pheromone_deposit = 100

\* line 242 of the next call: run(start, end) begins on the colony as the
\* call before left it
RunAgain ==
    /\ pc = "run_returned"
    /\ calls < MaxCalls
    /\ \E se \in StartEnds(graph) : start' = se[1] /\ end' = se[2]
    /\ iteration' = 0
    /\ ant_id' = 0
    /\ pc' = "ant_loop"
    /\ calls' = calls + 1
    /\ successes' = <<>>
    /\ UNCHANGED <<graph, distances, evaporation_rate, pheromone_deposit,
                   pheromones, best_path, best_cost, ant_vars, result,
                   ants_constructed, deposit_count, evaporate_count>>

NextRerun ==
    \/ SpawnAnt
    \/ AntStep
    \/ AntReturnPath
    \/ AntFail
    \/ AntSkipped
    \/ AntCounted
    \/ AntCountedFault
    \/ EndIteration
    \/ RunAgain

SpecRerun == InitRerun /\ [][NextRerun]_vars

-----------------------------------------------------------------------------
(* Definitions the properties are stated with, computed from the graph      *)
(* alone.                                                                   *)

IsEdge(g, a, b) == a \in Nodes(g) /\ b \in Nodes(g) /\ \E e \in SeqToSet(g[a]) : e[1] = b
EdgeWeight(g, a, b) == (CHOOSE e \in SeqToSet(g[a]) : e[1] = b)[2]

\* the sum of the weights of the edges lo..hi of p
RECURSIVE SumOfWeights(_, _, _, _)
SumOfWeights(g, p, lo, hi) ==
    IF lo > hi THEN 0
    ELSE IF lo = hi THEN EdgeWeight(g, p[lo], p[lo + 1])
    ELSE SumOfWeights(g, p, lo, (lo + hi) \div 2)
         + SumOfWeights(g, p, ((lo + hi) \div 2) + 1, hi)

ValidPath(p, cost) ==
    /\ Len(p) >= 1
    /\ p[1] = start
    /\ p[Len(p)] = end
    /\ \A i \in 1..(Len(p) - 1) : IsEdge(graph, p[i], p[i + 1])
    /\ cost = SumOfWeights(graph, p, 1, Len(p) - 1)

Successors(g, n) == {g[n][i][1] : i \in 1..Len(g[n])} \cap Nodes(g)

\* st = <<the nodes found so far, those of them found last>>: one more edge
ReachStep(g, st) ==
    LET fresh == (UNION {Successors(g, m) : m \in st[2]}) \ st[1]
    IN  <<st[1] \cup fresh, fresh>>

\* at most n more edges, until nothing new is found
RECURSIVE ReachRun(_, _, _)
ReachRun(g, st, n) ==
    IF n = 0 \/ st[2] = {} THEN st
    ELSE IF n = 1 THEN ReachStep(g, st)
    ELSE ReachRun(g, ReachRun(g, st, n \div 2), n - (n \div 2))

ReachSet(g, s) == ReachRun(g, <<{s}, {s}>>, Cardinality(Nodes(g)))[1]

Unreachable == end \notin ReachSet(graph, start)

RunOver == pc \in {"run_returned", "aborted", "reported"}

PathEdges(p) == {<<p[i], p[i + 1]>> : i \in 1..(Len(p) - 1)}
Occurrences(p, edge) == Cardinality({i \in 1..(Len(p) - 1) : <<p[i], p[i + 1]>> = edge})
ValueAt(ph, edge) == IF edge \in DOMAIN ph THEN ph[edge] ELSE <<0, 1>>
GraphEdges(g) == {<<n, e[1]>> : <<n, e>> \in
                     UNION {{<<m, x>> : x \in SeqToSet(g[m])} : m \in Nodes(g)}}

-----------------------------------------------------------------------------
C2_UnreachableExhaustsBudget ==
    Unreachable =>
        /\ pc # "fault"
        /\ best_path = None /\ best_cost = Inf
        /\ (pc = "ant_returned" => result = None)
        /\ RunOver => /\ evaporate_count = num_iterations
                      /\ iteration = num_iterations - 1
                      /\ ants_constructed = num_iterations * num_ants

\* run has returned for an unreachable target whose ants walked a cycle
C2_Witness ==
    /\ Unreachable
    /\ pc = "run_returned"
    /\ step = max_steps

(* C3: every value stored in the pheromone field is at least 0.01.          *)
C3_FloorInvariant ==
    \A edge \in DOMAIN pheromones : ~RLess(pheromones[edge], Floor)

(* C4: run never ends in an unhandled fault for start and end that are      *)
(* nodes of the graph.                                                      *)
C4_NoFault == pc # "fault"

\* best_cost is the least cost among the counted ants and best_path the path
\* of the first of them that had it
BestIsFirstMinimum ==
    IF successes = <<>>
    THEN best_path = None /\ best_cost = Inf
    ELSE \E i \in 1..Len(successes) :
            /\ successes[i] = <<best_path, best_cost>>
            /\ \A j \in 1..Len(successes) : successes[j][2] >= best_cost
            /\ \A j \in 1..(i - 1) : successes[j][2] > best_cost

C7_FieldInitialised ==
    /\ GraphEdges(graph) \subseteq DOMAIN pheromones
    /\ ants_constructed = 0 =>
          \A e1, e2 \in GraphEdges(graph) : pheromones[e1] = pheromones[e2]

(* C8: an evaporation with rate 0 leaves every value unchanged, and with    *)
(* rate 1 leaves every value at 0.01.                                       *)
C8_EvaporateZeroAndOne ==
    [][ evaporate_count' # evaporate_count =>
          /\ evaporation_rate = <<0, 1>> => pheromones' = pheromones
          /\ evaporation_rate = <<1, 1>> =>
                \A edge \in DOMAIN pheromones' : pheromones'[edge] = Floor ]_vars

\* after is before with one amount > 0 added per occurrence of an edge in p
DepositEffect(before, after, p, cost, deposit) ==
    LET first == <<p[1], p[2]>>
        gain == RSub(ValueAt(after, first), ValueAt(before, first))
        amount == Norm(<<gain[1], gain[2] * Occurrences(p, first)>>)
    IN  /\ DOMAIN after = DOMAIN before \cup PathEdges(p)
        /\ RLess(<<0, 1>>, amount)
        /\ \A edge \in DOMAIN after :
              /\ after[edge] = RAdd(ValueAt(before, edge),
                                    RMul(Rat(Occurrences(p, edge)), amount))
              /\ ~RLess(after[edge], ValueAt(before, edge))
              /\ edge \in PathEdges(p) => RLess(ValueAt(before, edge), after[edge])
              /\ edge \notin PathEdges(p) => after[edge] = before[edge]
        /\ Len(p) <= LongPathThreshold => amount[1] * cost = deposit * amount[2]

(* C9: a deposit for a path of cost > 0 adds one positive amount to every   *)
(* edge of the path once per occurrence of the edge in the path, lowers no  *)
(* value, and leaves every other edge as it was; for a path of at most 1000 *)
(* nodes the amount is pheromone_deposit / cost.                            *)
C9_DepositAddsPerOccurrence ==
    [][ (deposit_count' # deposit_count /\ total_cost > 0) =>
            DepositEffect(pheromones, pheromones', result, total_cost,
                          pheromone_deposit) ]_vars

\* the second deposit of an iteration, for a path that takes one edge twice
C9_Witness ==
    /\ pc = "ant_loop"
    /\ deposit_count = 2
    /\ \E edge \in PathEdges(result) : Occurrences(result, edge) = 2

\* the recency window as the claims describe it: the last min(5, Len(p)) nodes
\* of the path
Window(p) ==
    SubSeq(p, IF Len(p) > max_recent THEN Len(p) - max_recent + 1 ELSE 1, Len(p))

\* the highest non-empty tier of the available neighbours of c after path p
HighestTier(g, c, p) ==
    LET avail == Successors(g, c)
        unvisited == avail \ SeqToSet(p)
        outside == (avail \cap SeqToSet(p)) \ SeqToSet(Window(p))
    IN  IF unvisited # {} THEN unvisited
        ELSE IF outside # {} THEN outside
        ELSE avail

(* C10: in the main program, when the target is unreachable the abort is    *)
(* signalled before any ant is constructed and before any iteration of run. *)
C10_AbortBeforeColonyWork ==
    pc = "aborted" => ants_constructed = 0 /\ evaporate_count = 0

(* C11: every move of find_path, made by the NORMAL or by the ESCAPE        *)
(* policy, goes to a node of the highest non-empty tier of the available    *)
(* neighbours: an unvisited one if there is any, else a visited one outside *)
(* the last 5 nodes of the path if there is any, else one inside them.      *)
C11_ChoiceFromHighestTier ==
    [][ (pc = "find_path" /\ path' # path) =>
            current' \in HighestTier(graph, current, path) ]_vars

\* an ESCAPE selection at node 4 of the ring, whose neighbour 3 is in the
\* window and whose neighbour 5 is visited and outside it, has moved to 5
C11_Witness ==
    /\ graph = Lasso
    /\ pc = "find_path"
    /\ escape_run > 0
    /\ current = 5
    /\ path[Len(path) - 1] = 4

\* the last n moves of path p added no node to the nodes of p
NoGrowth(p, n) ==
    Len(p) > n /\ SeqToSet(SubSeq(p, 1, Len(p) - n)) = SeqToSet(p)

\* the last move of path p, or its first node, added a node
Grown(p) == p[Len(p)] \notin SeqToSet(SubSeq(p, 1, Len(p) - 1))

(* C12: a selection is made by the ESCAPE policy only after more than 100   *)
(* consecutive moves that added no node to the visited set; a step that     *)
(* sees the visited set grown selects by the NORMAL policy and leaves the   *)
(* ant in NORMAL with the escape counter at 0; no more than 200 ESCAPE      *)
(* selections follow one another, and the NORMAL selection that ends such a *)
(* run leaves the ant in NORMAL with the escape counter at 0.               *)
C12_StagnationStateMachine ==
    [][ (pc = "find_path" /\ path' # path) =>
          /\ escape_run' > 0 => NoGrowth(path, StagnationThreshold + 1)
          /\ Grown(path) => escape_run' = 0 /\ ~escape_mode' /\ escape_steps' = 0
          /\ escape_run' <= EscapeBudget
          /\ (escape_run > 0 /\ escape_run' = 0) =>
                ~escape_mode' /\ escape_steps' = 0 ]_vars

\* the escape budget has run out without growth: the NORMAL selection after
\* the ESCAPE selections has been made
C12_Witness ==
    /\ pc = "find_path"
    /\ steps_without_progress = StagnationThreshold + EscapeBudget
    /\ escape_run = 0
    /\ ~escape_mode

(* C13: find_path returns None only in a state where the current node is    *)
(* not the target; a target reached by the move of the last permitted step  *)
(* counts as reached.                                                       *)
C13_FailureOnlyOffTarget ==
    (pc = "ant_returned" /\ result = None) => current # end

\* run has ended, by its return or by an exception
Stopped == RunOver \/ pc = "fault"

(* C14: run terminates by its rules: no ant makes more than max_steps       *)
(* moves; when run has ended, every iteration it began has run num_ants     *)
(* ants and has ended with its evaporation, and either a best path of fewer *)
(* than 200 nodes is known or num_iterations iterations were made; an       *)
(* iteration after the first begins only if no best path of fewer than 200  *)
(* nodes was known at the end of the one before.                            *)
C14_RunStopsByItsRules ==
    /\ step <= max_steps /\ Len(path) <= max_steps + 1
    /\ evaporate_count <= num_iterations
    /\ Stopped => /\ ants_constructed = evaporate_count * num_ants
                  /\ EarlyExit(best_path) \/ evaporate_count = num_iterations
    /\ (pc = "ant_loop" /\ ant_id = 0 /\ iteration > 0) =>
          ~EarlyExit(best_path) /\ evaporate_count = iteration

\* candidates n and m of a move from c that the heuristic cannot tell apart:
\* one finite goal distance, one edge cost
SameHeuristic(c, n, m) ==
    /\ goal_distance(distances, end, n) # Inf
    /\ goal_distance(distances, end, n) = goal_distance(distances, end, m)
    /\ EdgeWeight(graph, c, n) = EdgeWeight(graph, c, m)

(* C15: a NORMAL selection follows the pheromone field: of two candidates   *)
(* of the active tier with the same finite goal distance and the same edge  *)
(* cost, the one whose edge holds less pheromone (none counting as 0) is    *)
(* not the one chosen.                                                      *)
C15_ChoiceFollowsPheromone ==
    [][ (pc = "find_path" /\ path' # path /\ escape_run' = 0) =>
            \A m \in HighestTier(graph, current, path) :
                SameHeuristic(current, current', m) =>
                    ~RLess(ValueAt(pheromones, <<current, current'>>),
                           ValueAt(pheromones, <<current, m>>)) ]_vars

\* what a deposit added to the first edge of the path
AddedToFirstEdge ==
    RSub(ValueAt(pheromones', <<result[1], result[2]>>),
         ValueAt(pheromones, <<result[1], result[2]>>))

(* C16: for a path of more than 1000 nodes the amount a deposit adds to an  *)
(* edge of the path is strictly smaller than pheromone_deposit / cost.      *)
C16_LongPathGetsLess ==
    [][ (deposit_count' # deposit_count /\ Len(result) > LongPathThreshold) =>
            RLess(AddedToFirstEdge, <<pheromone_deposit, total_cost>>) ]_vars

\* the distance the flat table of get_distance_dict holds between n and e, in
\* either direction; Inf if it holds none
TableDistance(dist, n, e) ==
    IF <<n, e>> \in DOMAIN dist THEN dist[<<n, e>>]
    ELSE IF <<e, n>> \in DOMAIN dist THEN dist[<<e, n>>]
    ELSE Inf

(* C17: with the table of get_distance_dict, a NORMAL selection uses the    *)
(* distances the table holds between the candidates and the target: it      *)
(* never moves to a candidate whose goal distance plus edge cost is         *)
(* strictly larger than that of another candidate of the same tier, when    *)
(* the table holds both goal distances.                                     *)
C17_TableDistanceUsed ==
    [][ (pc = "find_path" /\ path' # path /\ escape_run' = 0) =>
            \A m \in HighestTier(graph, current, path) :
                (/\ TableDistance(distances, current', end) # Inf
                 /\ TableDistance(distances, m, end) # Inf) =>
                    TableDistance(distances, current', end)
                        + EdgeWeight(graph, current, current')
                    <= TableDistance(distances, m, end)
                        + EdgeWeight(graph, current, m) ]_vars

(* C18: find_path changes nothing but the ant's own state: from the         *)
(* construction of an ant to the return of its find_path, whatever the      *)
(* outcome, the pheromone field, the graph and the distance table stay as   *)
(* they were; the field changes only by a deposit or an evaporation of the  *)
(* colony.                                                                  *)
C18_FindPathFrame ==
    [][ /\ (pc = "find_path" \/ ants_constructed' # ants_constructed) =>
              pheromones' = pheromones
        /\ pheromones' # pheromones =>
              deposit_count' # deposit_count \/ evaporate_count' # evaporate_count
        /\ graph' = graph
        /\ distances' = distances ]_vars

\* the second ant of an iteration is back with a path, the field holding the
\* deposit of the first
C18_Witness ==
    /\ pc = "ant_returned"
    /\ result # None
    /\ deposit_count = 1
    /\ ant_id = 1
    /\ pheromones # <<>>

(* C19: what a call of run returns is found by the ants of that call: the   *)
(* best path starts at the call's start and ends at its end, it is the      *)
(* first cheapest path of the call's counted ants, and it is (None, inf)    *)
(* when none of the call's ants was counted.                                *)
C19_ResultOfThisCall ==
    pc = "run_returned" =>
        /\ BestIsFirstMinimum
        /\ best_path # None =>
              best_path[1] = start /\ best_path[Len(best_path)] = end

(* C20: at every step of find_path and at its return, the visited set is    *)
(* the set of the nodes of the path, the recency window holds at most 5     *)
(* nodes and is the last min(5, len(path)) nodes of the path in order, and  *)
(* total_cost is the sum of the weights of the edges the path has taken.    *)
C20_AntStateFollowsPath ==
    pc \in {"find_path", "ant_returned"} =>
        /\ visited = SeqToSet(path)
        /\ Len(recent_nodes) <= max_recent
        /\ recent_nodes = Window(path)
        /\ total_cost = SumOfWeights(graph, path, 1, Len(path) - 1)

\* an ant that has walked a cycle: nodes revisited, the window full and its
\* oldest nodes evicted, edges of weight 3 taken
C20_Witness ==
    /\ pc = "find_path"
    /\ Len(path) = 8
    /\ Cardinality(visited) = 2
    /\ total_cost = 21

====
